---- MODULE Spec2Model ----
(***************************************************************************)
(* A model of picasso/gui/localize.py: the main Window, its parameter      *)
(* widgets, the rubber-band ROI of the View, and the two worker threads    *)
(* (IdentificationWorker, FitWorker) with their polling loops.             *)
(*                                                                         *)
(* Python's None is modelled, per variable, by a value of the variable's   *)
(* own shape (NoIdentifications, NoLocs, NoInfo, NoRoi, movie 0).          *)
(***************************************************************************)
EXTENDS Integers, Sequences, FiniteSets, TLC

\* ------------------------------------------------------------------ bounds
\* Movies the user can open are numbered 1..MaxMovies (the number is also the path).
MaxMovies == 2
\* IdentificationWorkers / FitWorkers created in one behaviour.
MaxIdRuns == 2
MaxFitRuns == 1
\* An identification returns 0..MaxSpots candidates.
MaxSpots == 1
\* Width and height, in pixels, of every movie frame.
FrameSize == 32
\* Largest value typed into the box-size spin box.
MaxBoxTyped == 8
\* Items (frames or candidates) of one worker run.
MaxItems == 3
\* Frames of every movie.
MaxFrames == 2

\* ------------------------------------------------------- program constants
DefaultBoxSize == 7
DefaultMinNetGradient == 5000
\* QSpinBox's default range, which OddSpinBox() keeps.
SpinBoxMinimum == 0
SpinBoxMaximum == 99
\* The rubber band is discarded when narrower than this many view pixels.
MinRubberBand == 10
\* Side of the window, in view pixels.
ViewSize == 768

\* ------------------------------------------------------------------ values
Movies == 1..MaxMovies
NoRoi == << >>
NoIdentifications == [run |-> 0, n |-> 0, movie |-> 0]
NoInfo == [set |-> FALSE, box |-> 0, mng |-> 0, roi |-> NoRoi]
NoLocs == [fit |-> 0, ids |-> NoIdentifications, box |-> 0]
NoCall == [called |-> FALSE, movie |-> 0, mng |-> 0, box |-> 0, frame |-> 0, roi |-> NoRoi]
NoSave == [saved |-> FALSE, path |-> 0, locs |-> NoLocs, info |-> NoInfo]
NoPoint == << >>
NoDisplay == << >>

\* info[0]['Frames'] of movie m, the length of the movie.
Frames(m) == IF m % 2 = 1 THEN MaxFrames ELSE MaxFrames - 1

\* The samples of frame f of movie file m (two samples stand for the grid).
MovieData == [m \in Movies |-> [f \in 0..(Frames(m) - 1) |->
                 <<100 * m + 10 * f, 100 * m + 10 * f + 40 + f>>]]

VARIABLES
    \* Window
    movie, movie_path, current_frame_number, identifications, locs,
    last_identification_info, ready_for_fit,
    \* View
    roi, roi_origin, view_scale,
    \* ParametersDialog widgets
    box_spinbox, mng_spinbox, mng_slider, mng_minimum, mng_maximum,
    mng_min_spinbox, mng_max_spinbox, preview_checkbox,
    gain, baseline, sensitivity, qe, convergence_spinbox, max_iterations_spinbox,
    symmetric_checkbox,
    \* worker threads and the GUI thread's queue of their finished signals
    idw, fitw, gui_queue,
    \* history: the Window's values at the moment each worker was created, and
    \* the run and candidate count of the identification handled last
    id_log, fit_log, last_finished,
    \* calls that leave the Window: the preview identification, io.save_locs
    preview_call, save_call,
    \* one worker's run(): the polling loop over the shared counter
    run_pc, run_N, run_pending, run_current, run_progress, run_finished,
    run_raised, run_late, run_result,
    \* the pixel data of the movie files, the image draw_frame shows, and the
    \* ContrastDialog widgets
    movie_data, display, auto_checkbox, black_spinbox, white_spinbox,
    \* config.yaml as loaded into CONFIG, the ParametersDialog's construction
    \* status, its camera combo box and the per-camera setting combo boxes, and
    \* the outcome of the last set_camera_parameters
    config, dialog, camera, cam_combos, emission_combos, cam_call,
    \* the exception that a handler run by the GUI thread has raised last
    raised,
    \* the last PromptInfoDialog: what the user left in it and what
    \* getMovieSpecs returned
    prompt

winVars == <<movie, movie_path, current_frame_number, identifications, locs,
             last_identification_info, ready_for_fit>>
viewVars == <<roi, roi_origin, view_scale>>
idVars == <<box_spinbox, mng_spinbox, mng_slider, mng_minimum, mng_maximum,
            mng_min_spinbox, mng_max_spinbox, preview_checkbox>>
fitSetVars == <<gain, baseline, sensitivity, qe, convergence_spinbox,
                max_iterations_spinbox, symmetric_checkbox>>
workerVars == <<idw, fitw, gui_queue, id_log, fit_log, last_finished>>
callVars == <<preview_call, save_call>>
runVars == <<run_pc, run_N, run_pending, run_current, run_progress, run_finished,
             run_raised, run_late, run_result>>
frameVars == <<movie_data, display, auto_checkbox, black_spinbox, white_spinbox>>
camVars == <<config, dialog, camera, cam_combos, emission_combos, cam_call>>
vars == <<winVars, viewVars, idVars, fitSetVars, workerVars, callVars, runVars,
          frameVars, camVars, raised, prompt>>

\* ----------------------------------------------------------------- helpers
Clamp(v, lo, hi) == IF v < lo THEN lo ELSE IF v > hi THEN hi ELSE v

\* Window.parameters: a fresh dict read from the two widgets.
Parameters == [box |-> box_spinbox, mng |-> mng_slider]

\* A draw_frame that never runs the preview identification.
DrawFrameNoPreview(mv, ready, frame, params, r, old) == old

\* The arguments of the preview call draw_frame makes, or `old` when it makes none.
DrawFrame(mv, ready, frame, params, r, old) ==
    IF mv # 0 /\ ~ready /\ preview_checkbox
    THEN [called |-> TRUE, movie |-> mv, mng |-> params.mng, box |-> params.box,
          frame |-> frame, roi |-> r]
    ELSE old

\* ------------------------------------------------------------- CONFIG
\* config.yaml is an input of the program.  config = NoCameras is a CONFIG
\* without the key 'Cameras'; config = k in 1..MaxDepth is a CONFIG with the
\* two cameras below, the first of which declares a chain of k
\* Sensitivity Categories.  Keys (camera names, category settings, channel
\* names, wavelengths) are numbers that sort like the strings they stand for.
MaxDepth == 3
NoCameras == 0
Configs == 1..MaxDepth

\* The camera combo box without a selection (it is not created without
\* 'Cameras'), the two configured cameras, and a camera name that movie
\* metadata can carry but CONFIG lacks.
NoCamera == 0
CategoryCamera == 1
PlainCamera == 2
UnknownCamera == 3
Cameras(cfg) == IF cfg = NoCameras THEN {} ELSE {CategoryCamera, PlainCamera}

\* cam_config['Baseline'], in the Baseline spin box's steps of 0.1.
Baseline(c) == IF c = CategoryCamera THEN 2000 ELSE 1500

\* len(cam_config['Sensitivity Categories']); 0 when the key is missing.
Categories(cfg, c) == IF c = CategoryCamera THEN cfg ELSE 0

\* cam_config['Sensitivity'] of the camera without categories: a number, in
\* the Sensitivity spin box's steps of 0.01.
PlainSensitivity == 250

\* The nested Sensitivity table of the camera with categories: the settings
\* offered below a setting depend on it.
TopKeys == {1, 2}
ChildKeys(key) == IF key = 1 THEN {1, 2} ELSE IF key = 2 THEN {2, 3} ELSE {1}

\* The paths of settings that reach a leaf of a table of depth k.
Leaves(k) ==
    {p \in [1..k -> 1..3] :
        /\ p[1] \in TopKeys
        /\ \A i \in 2..k : p[i] \in ChildKeys(p[i - 1])}

\* The keys of the sub-table that the settings `path` reach.
SubKeys(k, path) ==
    {p[Len(path) + 1] : p \in {q \in Leaves(k) :
                                  \A i \in 1..Len(path) : q[i] = path[i]}}

\* The number at the leaf that `path` reaches, different for every path.
RECURSIVE LeafValue(_)
LeafValue(path) ==
    IF path = << >> THEN 0
    ELSE 4 * LeafValue(SubSeq(path, 1, Len(path) - 1)) + path[Len(path)]

\* cam_config['Quantum Efficiency']: wavelength -> value in steps of 0.01.
QuantumEfficiency(c) ==
    IF c = CategoryCamera THEN (525 :> 80) @@ (595 :> 70) ELSE (600 :> 60)

\* cam_config['Channel Device']['Emission Wavelengths']: channel -> wavelength.
\* Channel 3 names a wavelength without a Quantum Efficiency entry; the
\* camera without categories declares no Channel Device.
HasChannelDevice(c) == c = CategoryCamera
EmissionWavelengths == (1 :> 525) @@ (2 :> 595) @@ (3 :> 700)

\* The camera without categories declares a 'Gain Property Name'.
HasGainProperty(c) == c = PlainCamera

\* sorted(list(keys)) as a sequence.
RECURSIVE Sorted(_)
Sorted(S) ==
    IF S = {} THEN << >>
    ELSE LET m == CHOOSE x \in S : \A y \in S : x <= y
         IN <<m>> \o Sorted(S \ {m})

\* info[0] of a movie, as far as set_camera_parameters reads it: whether it
\* has 'Micro-Manager Metadata', and there the camera name, the setting of
\* each category (0: the property is missing), the channel and the gain.
NoSettings == [i \in 1..MaxDepth |-> 0]
NoMetadata == [mm |-> FALSE, camera |-> NoCamera, settings |-> NoSettings,
               channel |-> 0, gain |-> 1]
\* The last set_camera_parameters call: its argument and what it raised.
NoCamCall == [info |-> NoMetadata, raised |-> "none"]

\* ----------------------------------------------------- PromptInfoDialog
\* The items of the Byte Order combo box, in order.
ByteOrderItems == <<"Little Endian (loads faster)", "Big Endian">>

\* What the user leaves in the dialog: the index of the Byte Order item, the
\* data type, frames, height and width, the Save checkbox, and whether the
\* dialog is closed with OK.
NoPrompt ==
    [called |-> FALSE,
     dialog |-> [byte_order |-> 1, dtype |-> "float16", frames |-> 1, height |-> 1,
                 width |-> 1, save |-> TRUE, accepted |-> FALSE],
     info |-> [byte_order |-> "", dtype |-> "", frames |-> 0, height |-> 0,
               width |-> 0],
     save |-> FALSE, ok |-> FALSE]

\* `dialog.byte_order == 'big endian'`: the QComboBox object itself compared
\* with a str, which Python answers with False whatever is selected.
ByteOrderIsBigEndian(entered) == FALSE

\* Window.prompt_info: the dialog is shown and closed by the user, and
\* PromptInfoDialog.getMovieSpecs returns what exec_ has left in it.
GetMovieSpecs(entered) ==
    /\ prompt' =
           [called |-> TRUE,
            dialog |-> entered,
            info |-> [byte_order |-> IF ByteOrderIsBigEndian(entered) THEN ">" ELSE "<",
                      dtype |-> entered.dtype, frames |-> entered.frames,
                      height |-> entered.height, width |-> entered.width],
            save |-> entered.save,
            ok |-> entered.accepted]
    /\ UNCHANGED <<winVars, viewVars, idVars, fitSetVars, workerVars, callVars,
                   runVars, frameVars, camVars, raised>>

\* ------------------------------------------------------------ rendering
\* The Black and White spin boxes: setRange(0, 999999).
ContrastMaximum == 999999

Min2(a, b) == IF a < b THEN a ELSE b
Max2(a, b) == IF a > b THEN a ELSE b
FrameMin(fr) == Min2(fr[1], fr[2])
FrameMax(fr) == Max2(fr[1], fr[2])

\* One sample through draw_frame: (p - lo) / span * 255, cut to 0..255 and
\* converted to uint8.  A division by 0 gives +-inf, which the cut maps to 255
\* or 0, except 0 / 0 = nan, whose uint8 conversion is undefined.
StretchSample(p, lo, span) ==
    IF span = 0
    THEN IF p > lo THEN {255} ELSE IF p < lo THEN {0} ELSE {0, 255}
    ELSE IF p <= lo THEN {0} ELSE {Min2(((p - lo) * 255) \div span, 255)}

StretchFrame(fr, lo, span) ==
    {<<a, b>> : a \in StretchSample(fr[1], lo, span),
                b \in StretchSample(fr[2], lo, span)}

\* A draw_frame whose in-place operations write into the movie itself.
StretchTargetMovie == "movie"

\* The array draw_frame's in-place operations (-=, /=, *=) write into:
\* frame.astype('float32') is a new array, not a view of the movie.
StretchTarget == "copy"

\* The pixel side of draw_frame for frame n of movie m (nothing without a
\* movie) under the given contrast settings: the image shown, and the movie
\* data after the in-place operations.
DrawFramePixels(m, n, auto, black, white) ==
    IF m = 0
    THEN UNCHANGED <<movie_data, display>>
    ELSE LET fr == movie_data[m][n]
             lo == IF auto THEN FrameMin(fr) ELSE black
             span == IF auto THEN FrameMax(fr) - FrameMin(fr) ELSE white
         IN \E out \in StretchFrame(fr, lo, span) :
                /\ display' = out
                /\ movie_data' = IF StretchTarget = "copy"
                                 THEN movie_data
                                 ELSE [movie_data EXCEPT ![m][n] = out]

\* draw_frame called with the ContrastDialog left as it is.
DrawFrameOnly(m, n) ==
    /\ DrawFramePixels(m, n, auto_checkbox, black_spinbox, white_spinbox)
    /\ UNCHANGED <<auto_checkbox, black_spinbox, white_spinbox>>

\* The pixel side of set_frame(n) on movie m: with Auto checked the Black and
\* White spin boxes are set, silently, to the frame's minimum and maximum;
\* then draw_frame.
SetFramePixels(m, n) ==
    /\ auto_checkbox' = auto_checkbox
    /\ black_spinbox' = IF auto_checkbox
                        THEN Clamp(FrameMin(movie_data[m][n]), 0, ContrastMaximum)
                        ELSE black_spinbox
    /\ white_spinbox' = IF auto_checkbox
                        THEN Clamp(FrameMax(movie_data[m][n]), 0, ContrastMaximum)
                        ELSE white_spinbox
    /\ DrawFramePixels(m, n, auto_checkbox, black_spinbox', white_spinbox')

\* ------------------------------------------- ParametersDialog, cameras
\* A QComboBox after addItems(items) on an empty box: the first item becomes
\* current (current = 0 is Qt's index -1).
Combo(items) == [items |-> items, current |-> IF items = << >> THEN 0 ELSE 1]
CurrentText(combo) == combo.items[combo.current]

\* The settings selected in the first n combo boxes of a chain.
Path(combos, n) == [j \in 1..n |-> CurrentText(combos[j])]

\* cam_combos[self.index + 1] exists (the code's index is i - 1).
TargetExists(combos, i) == i + 1 <= Len(combos)

\* CamSettingComboBox.change_target_choices of combo box i of a chain of k:
\* the next box is cleared silently and filled with the sorted keys of the
\* sub-table that the selections up to i reach; its currentIndexChanged runs
\* the same slot on it unless it is the last one.
RECURSIVE ChangeTargetChoices(_, _, _)
ChangeTargetChoices(k, combos, i) ==
    LET filled == [combos EXCEPT ![i + 1] = Combo(Sorted(SubKeys(k, Path(combos, i))))]
    IN IF i + 1 < k THEN ChangeTargetChoices(k, filled, i + 1) ELSE filled

\* The chain of k combo boxes as __init__ creates it: the first one filled
\* with the top-level keys, the others empty.
CreatedCombos(k) == [i \in 1..k |-> IF i = 1 THEN Combo(Sorted(TopKeys)) ELSE Combo(<< >>)]

\* ParametersDialog.update_sensitivity: the table walked with the current
\* selections in category order.
UpdateSensitivity(combos) == LeafValue(Path(combos, Len(combos)))

\* on_camera_changed: the Baseline and Sensitivity spin boxes afterwards
\* (setValue of a nested table raises TypeError, which is passed).
OnCameraChangedBaseline(c) == Baseline(c)
OnCameraChangedSensitivity(cfg, c, old) ==
    IF Categories(cfg, c) = 0 THEN PlainSensitivity ELSE old

\* self.gain.setRange(1, 1e6).
GainMaximum == 1000000

\* on_emission_changed: the Quantum Efficiency spin box (range 0..1 in steps
\* of 0.01) set to the entry of the current wavelength.
QeMaximum == 100
OnEmissionChanged(c, combo) == Clamp(QuantumEfficiency(c)[CurrentText(combo)], 0, QeMaximum)

\* ParametersDialog.__init__, the part under `if 'Cameras' in CONFIG`: the
\* combo boxes of every camera, then on_camera_changed(0) and
\* update_sensitivity() for the first camera.  change_target_choices(0) on
\* the first box of a chain raises IndexError when there is no second box.
Construct ==
    /\ dialog = "new"
    /\ IF config = NoCameras
       THEN /\ dialog' = "built"
            /\ UNCHANGED <<camera, cam_combos, emission_combos, baseline, sensitivity>>
       ELSE LET k == Categories(config, CategoryCamera)
            IN IF ~TargetExists(CreatedCombos(k), 1)
               THEN /\ dialog' = "IndexError"
                    /\ UNCHANGED <<camera, cam_combos, emission_combos, baseline,
                                   sensitivity>>
               ELSE /\ dialog' = "built"
                    /\ camera' = CategoryCamera
                    /\ cam_combos' =
                           [c \in Cameras(config) |->
                               IF Categories(config, c) > 0
                               THEN ChangeTargetChoices(k, CreatedCombos(k), 1)
                               ELSE << >>]
                    /\ emission_combos' =
                           [c \in Cameras(config) |->
                               Combo(Sorted(DOMAIN QuantumEfficiency(c)))]
                    /\ baseline' = OnCameraChangedBaseline(CategoryCamera)
                    /\ sensitivity' = UpdateSensitivity(cam_combos'[CategoryCamera])
    /\ UNCHANGED <<winVars, viewVars, idVars, gain, qe, convergence_spinbox,
                   max_iterations_spinbox, symmetric_checkbox, workerVars, callVars,
                   runVars, frameVars, config, cam_call, raised, prompt>>

\* The user picks camera c in the camera combo box: on_camera_changed.
OnCameraChanged(c) ==
    /\ dialog = "built"
    /\ c \in Cameras(config) /\ c # camera
    /\ camera' = c
    /\ baseline' = OnCameraChangedBaseline(c)
    /\ sensitivity' = OnCameraChangedSensitivity(config, c, sensitivity)
    /\ UNCHANGED <<winVars, viewVars, idVars, gain, qe, convergence_spinbox,
                   max_iterations_spinbox, symmetric_checkbox, workerVars, callVars,
                   runVars, frameVars, config, dialog, cam_combos, emission_combos,
                   cam_call, raised, prompt>>

\* Combo box i of a chain of k set to its item n (n differs from the current
\* one): currentIndexChanged runs change_target_choices down the chain.
SetCurrentIndex(k, combos, i, n) ==
    LET set == [combos EXCEPT ![i].current = n]
    IN IF i < k THEN ChangeTargetChoices(k, set, i) ELSE set

\* The user picks item n in category combo box i of the shown camera; the
\* last box's currentIndexChanged runs update_sensitivity.
SelectCategory(i, n) ==
    /\ dialog = "built" /\ camera # NoCamera
    /\ i \in 1..Len(cam_combos[camera])
    /\ n \in 1..Len(cam_combos[camera][i].items)
    /\ n # cam_combos[camera][i].current
    /\ cam_combos' = [cam_combos EXCEPT ![camera] =
                         SetCurrentIndex(Categories(config, camera), @, i, n)]
    /\ sensitivity' = UpdateSensitivity(cam_combos'[camera])
    /\ UNCHANGED <<winVars, viewVars, idVars, gain, baseline, qe, convergence_spinbox,
                   max_iterations_spinbox, symmetric_checkbox, workerVars, callVars,
                   runVars, frameVars, config, dialog, camera, emission_combos,
                   cam_call, raised, prompt>>

\* The user picks item n in the Emission Wavelength combo box of the shown
\* camera: on_emission_changed.
SelectEmission(n) ==
    /\ dialog = "built" /\ camera # NoCamera
    /\ n \in 1..Len(emission_combos[camera].items)
    /\ n # emission_combos[camera].current
    /\ emission_combos' = [emission_combos EXCEPT ![camera].current = n]
    /\ qe' = OnEmissionChanged(camera, emission_combos'[camera])
    /\ UNCHANGED <<winVars, viewVars, idVars, gain, baseline, sensitivity,
                   convergence_spinbox, max_iterations_spinbox, symmetric_checkbox,
                   workerVars, callVars, runVars, frameVars, config, dialog, camera,
                   cam_combos, cam_call, raised, prompt>>

\* The category loop of set_camera_parameters from category i on: a setting
\* found among the items of its combo box is made current, a missing
\* property or a setting that is not among the items changes nothing.
RECURSIVE SetCategories(_, _, _, _)
SetCategories(k, combos, settings, i) ==
    IF i > k THEN combos
    ELSE LET found == \E n \in 1..Len(combos[i].items) : combos[i].items[n] = settings[i]
             n == CHOOSE n \in 1..Len(combos[i].items) : combos[i].items[n] = settings[i]
             next == IF found /\ n # combos[i].current
                     THEN SetCurrentIndex(k, combos, i, n)
                     ELSE combos
         IN SetCategories(k, next, settings, i + 1)

\* ParametersDialog.set_camera_parameters(info), as Window.open calls it.
SetCameraParameters(info) ==
    IF info.mm /\ config # NoCameras /\ info.camera \in Cameras(config)
    THEN LET c == info.camera
             k == Categories(config, c)
             combos == IF k > 0
                       THEN SetCategories(k, cam_combos[c], info.settings, 1)
                       ELSE cam_combos[c]
             em == emission_combos[c]
             known == HasChannelDevice(c) /\ info.channel \in DOMAIN EmissionWavelengths
             found == known /\ \E n \in 1..Len(em.items) :
                                   em.items[n] = EmissionWavelengths[info.channel]
             n == CHOOSE n \in 1..Len(em.items) :
                      em.items[n] = EmissionWavelengths[info.channel]
         IN /\ camera' = c
            /\ baseline' = IF c # camera THEN OnCameraChangedBaseline(c) ELSE baseline
            /\ gain' = IF HasGainProperty(c) THEN Clamp(info.gain, 1, GainMaximum) ELSE 1
            /\ cam_combos' = [cam_combos EXCEPT ![c] = combos]
            /\ sensitivity' = IF combos # cam_combos[c] THEN UpdateSensitivity(combos)
                              ELSE IF c # camera
                              THEN OnCameraChangedSensitivity(config, c, sensitivity)
                              ELSE sensitivity
            /\ emission_combos' = IF found THEN [emission_combos EXCEPT ![c].current = n]
                                  ELSE emission_combos
            /\ qe' = IF found /\ n # em.current
                     THEN OnEmissionChanged(c, emission_combos'[c])
                     ELSE qe
            /\ cam_call' = [info |-> info,
                            raised |-> IF known /\ ~found THEN "ValueError" ELSE "none"]
    ELSE /\ cam_call' = [info |-> info, raised |-> "none"]
         /\ UNCHANGED <<camera, baseline, gain, cam_combos, sensitivity,
                        emission_combos, qe>>

\* ----------------------------------------------------------------- Window
InitWindow ==
    /\ movie = 0 /\ movie_path = 0 /\ current_frame_number = 0
    /\ identifications = NoIdentifications /\ locs = NoLocs
    /\ last_identification_info = NoInfo /\ ready_for_fit = FALSE
    /\ roi = NoRoi /\ roi_origin = NoPoint /\ view_scale = 1
    /\ box_spinbox = DefaultBoxSize
    /\ mng_spinbox = DefaultMinNetGradient /\ mng_slider = DefaultMinNetGradient
    /\ mng_minimum = 0 /\ mng_maximum = 10000
    /\ mng_min_spinbox = 0 /\ mng_max_spinbox = 10000
    /\ preview_checkbox = FALSE
    /\ gain = 1 /\ baseline = 1000 /\ sensitivity = 100 /\ qe = 90
    /\ convergence_spinbox = 10 /\ max_iterations_spinbox = 100
    /\ symmetric_checkbox = TRUE
    /\ idw = << >> /\ fitw = << >> /\ gui_queue = << >>
    /\ id_log = << >> /\ fit_log = << >> /\ last_finished = [run |-> 0, n |-> 0]
    /\ preview_call = NoCall /\ save_call = NoSave
    /\ movie_data = MovieData /\ display = NoDisplay
    /\ auto_checkbox = TRUE /\ black_spinbox = 0 /\ white_spinbox = 0
    /\ camera = NoCamera /\ cam_combos = << >> /\ emission_combos = << >>
    /\ cam_call = NoCamCall
    /\ raised = "none"
    /\ prompt = NoPrompt

\* The ParametersDialog constructed under a CONFIG without 'Cameras'.
InitBuilt == config = NoCameras /\ dialog = "built"

InitRunIdle ==
    /\ run_pc = "idle" /\ run_N = 0 /\ run_pending = 0 /\ run_current = 0
    /\ run_progress = -1 /\ run_finished = 0 /\ run_raised = FALSE /\ run_late = FALSE
    /\ run_result = -1

Init == InitWindow /\ InitBuilt /\ InitRunIdle

\* Window.open(path) when io.load_movie returns movie m with info[0] = info.
OpenMovie(m, info) ==
    /\ dialog = "built"
    /\ movie' = m /\ movie_path' = m
    /\ identifications' = NoIdentifications
    /\ locs' = NoLocs
    /\ ready_for_fit' = FALSE
    /\ current_frame_number' = 0
    /\ view_scale' = ViewSize \div FrameSize
    /\ preview_call' = DrawFrame(m, FALSE, 0, Parameters, roi, preview_call)
    /\ SetFramePixels(m, 0)
    /\ SetCameraParameters(info)
    /\ UNCHANGED <<last_identification_info, roi, roi_origin, idVars,
                   convergence_spinbox, max_iterations_spinbox, symmetric_checkbox,
                   workerVars, save_call, runVars, config, dialog, raised, prompt>>

\* Window.open of a movie whose info has no 'Micro-Manager Metadata'.
Open(m) == OpenMovie(m, NoMetadata)

\* io.load_movie returning None (the movie-info prompt was cancelled), and
\* `if result is not None:`.
NoResult == 0

\* An open that clears the results before it looks at what load_movie returned.
OpenPathClearing(result) ==
    IF result # NoResult THEN Open(result)
    ELSE /\ identifications' = NoIdentifications
         /\ locs' = NoLocs
         /\ ready_for_fit' = FALSE
         /\ UNCHANGED <<movie, movie_path, current_frame_number,
                        last_identification_info, viewVars, idVars, fitSetVars,
                        workerVars, callVars, runVars, frameVars, camVars, raised, prompt>>

\* Window.open(path) for either outcome of io.load_movie: without a result
\* nothing in the Window is assigned.
OpenPath(result) ==
    IF result # NoResult THEN Open(result) ELSE UNCHANGED vars

\* Window.on_parameters_changed, as the values it leaves in locs,
\* ready_for_fit and (through draw_frame) the preview call.
OnParametersChanged(params) ==
    /\ locs' = NoLocs
    /\ ready_for_fit' = FALSE
    /\ preview_call' = DrawFrame(movie, FALSE, current_frame_number, params, roi,
                                 preview_call)
    /\ DrawFrameOnly(movie, current_frame_number)

\* Window.set_frame(number) with a movie loaded: the frame number is stored,
\* then the frame is read (a negative index counts from the end, an index
\* outside the movie raises IndexError) and drawn.
SetFrame(number) ==
    /\ movie # 0
    /\ current_frame_number' = number
    /\ LET index == IF number < 0 THEN number + Frames(movie) ELSE number
       IN IF index \in 0..(Frames(movie) - 1)
          THEN /\ preview_call' = DrawFrame(movie, ready_for_fit, number, Parameters,
                                            roi, preview_call)
               /\ SetFramePixels(movie, index)
               /\ raised' = raised
          ELSE /\ raised' = "IndexError"
               /\ UNCHANGED <<preview_call, frameVars>>
    /\ UNCHANGED <<movie, movie_path, identifications, locs,
                   last_identification_info, ready_for_fit, viewVars, idVars,
                   fitSetVars, workerVars, save_call, runVars,
                   camVars, prompt>>

\* A next_frame that steps without looking at the number of frames.
NextFrameGuardOff(n, frames) == TRUE

\* The conditions under which previous_frame and next_frame call set_frame.
NextFrameGuard(n, frames) == n + 1 < frames

\* Window.previous_frame, next_frame, first_frame, last_frame where they
\* call set_frame; otherwise they do nothing.
PreviousFrame ==
    /\ movie # 0
    /\ current_frame_number > 0
    /\ SetFrame(current_frame_number - 1)

NextFrame ==
    /\ movie # 0
    /\ NextFrameGuard(current_frame_number, Frames(movie))
    /\ SetFrame(current_frame_number + 1)

FirstFrame == movie # 0 /\ SetFrame(0)

LastFrame == movie # 0 /\ SetFrame(Frames(movie) - 1)

\* Window.to_frame when the dialog is accepted: QInputDialog.getInt keeps the
\* typed number v within 1..Frames.
ToFrame(v) ==
    /\ movie # 0
    /\ SetFrame(Clamp(v, 1, Frames(movie)) - 1)

\* ------------------------------------------------- IdentificationWorker
NoArgs == [called |-> FALSE, movie |-> 0, mng |-> 0, box |-> 0, roi |-> NoRoi]
NoSignal == [parameters |-> [box |-> 0, mng |-> 0], roi |-> NoRoi,
             identifications |-> NoIdentifications, fit_afterwards |-> FALSE]

\* IdentificationWorker.__init__: what the thread object captures.
IdentificationWorkerInit(fit_afterwards) ==
    [movie |-> movie, roi |-> roi, parameters |-> Parameters,
     fit_afterwards |-> fit_afterwards,
     st |-> "started", args |-> NoArgs, signal |-> NoSignal, stored |-> FALSE]

\* A worker whose finished signal has been handled: its thread has ended and
\* nothing reads its attributes again, so only `stored` (whether the handler
\* installed its candidates) is kept.
HandledIdWorker(stored) ==
    [movie |-> 0, roi |-> NoRoi, parameters |-> [box |-> 0, mng |-> 0],
     fit_afterwards |-> FALSE,
     st |-> "handled", args |-> NoArgs, signal |-> NoSignal, stored |-> stored]

NoIdLog == [movie |-> 0, box |-> 0, mng |-> 0, roi |-> NoRoi]

\* A worker that read the Window's parameters when it runs.
IdWorkerParametersLive(w) == Parameters

\* The parameters and ROI IdentificationWorker.run reads: its own attributes.
IdWorkerParameters(w) == idw[w].parameters
IdWorkerRoi(w) == idw[w].roi

\* Window.identify(fit_afterwards) with a movie loaded; Window.localize is
\* identify(fit_afterwards=True).
Identify(fit_afterwards) ==
    /\ movie # 0
    /\ Len(idw) < MaxIdRuns
    /\ idw' = Append(idw, IdentificationWorkerInit(fit_afterwards))
    /\ id_log' = Append(id_log,
                        [at |-> [movie |-> movie, box |-> box_spinbox,
                                 mng |-> mng_slider, roi |-> roi],
                         overlap |-> {v \in 1..Len(idw) :
                                         idw[v].st \in {"started", "running"}}])
    /\ UNCHANGED <<winVars, viewVars, idVars, fitSetVars, fitw, gui_queue, fit_log,
                   last_finished, callVars, runVars,
                   frameVars, camVars, raised, prompt>>

\* IdentificationWorker.run up to the call of localize.identify_async.
IdWorkerBegin(w) ==
    /\ idw[w].st = "started"
    /\ idw' = [idw EXCEPT ![w].st = "running",
                          ![w].args = [called |-> TRUE, movie |-> idw[w].movie,
                                       mng |-> IdWorkerParameters(w).mng,
                                       box |-> IdWorkerParameters(w).box,
                                       roi |-> IdWorkerRoi(w)]]
    /\ UNCHANGED <<winVars, viewVars, idVars, fitSetVars, fitw, gui_queue, id_log,
                   fit_log, last_finished, callVars, runVars,
                   frameVars, camVars, raised, prompt>>

\* IdentificationWorker.run from the end of the polling loop: the candidates
\* are collected (n of them) and finished is emitted to the GUI thread.
IdWorkerFinish(w, n) ==
    /\ idw[w].st = "running"
    /\ idw' = [idw EXCEPT ![w].st = "emitted",
                          ![w].signal =
                              [parameters |-> IdWorkerParameters(w),
                               roi |-> IdWorkerRoi(w),
                               identifications |->
                                   [run |-> w, n |-> n, movie |-> idw[w].args.movie],
                               fit_afterwards |-> idw[w].fit_afterwards]]
    /\ gui_queue' = Append(gui_queue, [kind |-> "identify", w |-> w])
    /\ UNCHANGED <<winVars, viewVars, idVars, fitSetVars, fitw, id_log, fit_log,
                   last_finished, callVars, runVars,
                   frameVars, camVars, raised, prompt>>

\* ------------------------------------------------------------ FitWorker
NoFitArgs == [called |-> FALSE, movie |-> 0,
              camera_info |-> [baseline |-> 0, gain |-> 0, sensitivity |-> 0, qe |-> 0],
              identifications |-> NoIdentifications, box |-> 0, eps |-> 0,
              max_it |-> 0, method |-> "none"]

Method == IF symmetric_checkbox THEN "sigma" ELSE "sigmaxy"

CameraInfo == [baseline |-> baseline, gain |-> gain, sensitivity |-> sensitivity,
               qe |-> qe]

\* The FitWorker Window.fit creates: FitWorker.__init__ on fit's arguments.
\* ids and box are the Window's identifications and Parameters.box at the call;
\* by is the identification run whose handler called fit (0: the Fit action).
FitWorkerInit(ids, box, by) ==
    [movie |-> movie, camera_info |-> CameraInfo, identifications |-> ids,
     box |-> box, eps |-> convergence_spinbox, max_it |-> max_iterations_spinbox,
     method |-> Method,
     st |-> "started", by |-> by, args |-> NoFitArgs, locs |-> NoLocs]

HandledFitWorker(by) ==
    [movie |-> 0, camera_info |-> NoFitArgs.camera_info,
     identifications |-> NoIdentifications, box |-> 0, eps |-> 0, max_it |-> 0,
     method |-> "none",
     st |-> "handled", by |-> by, args |-> NoFitArgs, locs |-> NoLocs]

NoFitLog == [movie |-> 0, camera_info |-> NoFitArgs.camera_info,
             identifications |-> NoIdentifications, box |-> 0, eps |-> 0,
             max_it |-> 0, method |-> "none"]

\* What FitWorker.run hands to fit_async and locs_from_fits: its own attributes.
FitWorkerArgs(f) ==
    [called |-> TRUE, movie |-> fitw[f].movie, camera_info |-> fitw[f].camera_info,
     identifications |-> fitw[f].identifications, box |-> fitw[f].box,
     eps |-> fitw[f].eps, max_it |-> fitw[f].max_it, method |-> fitw[f].method]

FitLogEntry(ids) ==
    [movie |-> movie, camera_info |-> CameraInfo, identifications |-> ids,
     box |-> box_spinbox, eps |-> convergence_spinbox,
     max_it |-> max_iterations_spinbox, method |-> Method]

\* Window.fit's guard.
FitGuard(mv, ready) == mv # 0 /\ ready

\* Window.fit, from the menu.
Fit ==
    /\ FitGuard(movie, ready_for_fit)
    /\ Len(fitw) < MaxFitRuns
    /\ fitw' = Append(fitw, FitWorkerInit(identifications, Parameters.box, 0))
    /\ fit_log' = Append(fit_log, FitLogEntry(identifications))
    /\ UNCHANGED <<winVars, viewVars, idVars, fitSetVars, idw, gui_queue, id_log,
                   last_finished, callVars, runVars,
                   frameVars, camVars, raised, prompt>>

\* FitWorker.run up to the call of localize.fit_async.
FitWorkerBegin(f) ==
    /\ fitw[f].st = "started"
    /\ fitw' = [fitw EXCEPT ![f].st = "running", ![f].args = FitWorkerArgs(f)]
    /\ UNCHANGED <<winVars, viewVars, idVars, fitSetVars, idw, gui_queue, id_log,
                   fit_log, last_finished, callVars, runVars,
                   frameVars, camVars, raised, prompt>>

\* FitWorker.run from the end of the polling loop: locs_from_fits, finished.
FitWorkerFinish(f) ==
    /\ fitw[f].st = "running"
    /\ fitw' = [fitw EXCEPT ![f].st = "emitted",
                            ![f].locs = [fit |-> f,
                                         ids |-> FitWorkerArgs(f).identifications,
                                         box |-> FitWorkerArgs(f).box]]
    /\ gui_queue' = Append(gui_queue, [kind |-> "fit", w |-> f])
    /\ UNCHANGED <<winVars, viewVars, idVars, fitSetVars, idw, id_log, fit_log,
                   last_finished, callVars, runVars,
                   frameVars, camVars, raised, prompt>>

\* ------------------------------------------------- the finished handlers
\* A handler that kept the Window's earlier identifications.
StoredIdentificationsStale(sig) == identifications

\* The identifications on_identify_finished stores for a non-empty result.
StoredIdentifications(sig) == sig.identifications

\* A handler that takes every result for a non-empty one.
HasSpotsAlways(ids) == TRUE

\* `if len(identifications):`, under which on_identify_finished does all it does.
HasSpots(ids) == ids.n > 0

\* Window.on_identify_finished(parameters, roi, identifications, fit_afterwards),
\* run by the GUI thread for the oldest queued signal.
OnIdentifyFinished ==
    /\ gui_queue # << >>
    /\ Head(gui_queue).kind = "identify"
    /\ LET w == Head(gui_queue).w
           sig == idw[w].signal
           fits == HasSpots(sig.identifications) /\ sig.fit_afterwards
                   /\ FitGuard(movie, TRUE)
       IN /\ fits => Len(fitw) < MaxFitRuns
          /\ gui_queue' = Tail(gui_queue)
          /\ idw' = [idw EXCEPT ![w] = HandledIdWorker(HasSpots(sig.identifications))]
          /\ id_log' = [id_log EXCEPT ![w].at = NoIdLog]
          /\ last_finished' = [run |-> w, n |-> sig.identifications.n]
          /\ IF HasSpots(sig.identifications)
             THEN /\ locs' = NoLocs
                  /\ last_identification_info' =
                         [set |-> TRUE, box |-> sig.parameters.box,
                          mng |-> sig.parameters.mng, roi |-> sig.roi]
                  /\ identifications' = StoredIdentifications(sig)
                  /\ ready_for_fit' = TRUE
                  /\ DrawFrameOnly(movie, current_frame_number)
             ELSE UNCHANGED <<locs, last_identification_info, identifications,
                              ready_for_fit, frameVars>>
          /\ IF fits
             THEN /\ fitw' = Append(fitw, FitWorkerInit(StoredIdentifications(sig),
                                                        Parameters.box, w))
                  /\ fit_log' = Append(fit_log, FitLogEntry(StoredIdentifications(sig)))
             ELSE UNCHANGED <<fitw, fit_log>>
    /\ UNCHANGED <<movie, movie_path, current_frame_number, viewVars, idVars,
                   fitSetVars, callVars, runVars,
                   camVars, raised, prompt>>

\* Window.on_fit_finished(locs, elapsed_time) and the save_locs it ends with.
OnFitFinished ==
    /\ gui_queue # << >>
    /\ Head(gui_queue).kind = "fit"
    /\ LET f == Head(gui_queue).w
       IN /\ gui_queue' = Tail(gui_queue)
          /\ fitw' = [fitw EXCEPT ![f] = HandledFitWorker(fitw[f].by)]
          /\ fit_log' = [fit_log EXCEPT ![f] = NoFitLog]
          /\ locs' = fitw[f].locs
          /\ preview_call' = DrawFrame(movie, ready_for_fit, current_frame_number,
                                       Parameters, roi, preview_call)
          /\ save_call' = [saved |-> TRUE, path |-> movie_path, locs |-> fitw[f].locs,
                           info |-> last_identification_info]
    /\ DrawFrameOnly(movie, current_frame_number)
    /\ UNCHANGED <<movie, movie_path, current_frame_number, identifications,
                   last_identification_info, ready_for_fit, viewVars, idVars,
                   fitSetVars, idw, id_log, last_finished, runVars,
                   camVars, raised, prompt>>

\* Window.save_locs_dialog with the proposed file name accepted, and the
\* save_locs it calls.  Before a movie has been opened the Window has no
\* movie_path, and without an identification last_identification_info is
\* None: reading the one and copying the other raise AttributeError.
SaveLocsDialog ==
    /\ IF movie_path = 0 \/ ~last_identification_info.set
       THEN /\ raised' = "AttributeError"
            /\ UNCHANGED save_call
       ELSE /\ save_call' = [saved |-> TRUE, path |-> movie_path, locs |-> locs,
                             info |-> last_identification_info]
            /\ raised' = raised
    /\ UNCHANGED <<winVars, viewVars, idVars, fitSetVars, workerVars, preview_call,
                   runVars, frameVars, camVars, prompt>>

\* ------------------------------------------------ ParametersDialog edits
\* QSpinBox.setValue on the OddSpinBox holding `cur`: the value is clamped to
\* the range; a changed value emits valueChanged, and on_value_changed
\* replaces an even value by the next one (a second setValue).
OddSpinBoxSetValue(cur, v) ==
    LET c == Clamp(v, SpinBoxMinimum, SpinBoxMaximum)
    IN IF c = cur THEN cur
       ELSE IF c % 2 = 0 THEN Clamp(c + 1, SpinBoxMinimum, SpinBoxMaximum)
       ELSE c

\* The user sets the box-size spin box to v (typing, or a step of the arrows,
\* which is setValue(value +- 2)).  valueChanged reaches on_value_changed and
\* then on_box_changed -> Window.on_parameters_changed.
EditBox(v) ==
    /\ Clamp(v, SpinBoxMinimum, SpinBoxMaximum) # box_spinbox
    /\ box_spinbox' = OddSpinBoxSetValue(box_spinbox, v)
    /\ OnParametersChanged([box |-> box_spinbox', mng |-> mng_slider])
    /\ UNCHANGED <<movie, movie_path, current_frame_number, identifications,
                   last_identification_info, viewVars, mng_spinbox, mng_slider,
                   mng_minimum, mng_maximum, mng_min_spinbox, mng_max_spinbox,
                   preview_checkbox, fitSetVars, workerVars, save_call, runVars,
                   camVars, raised, prompt>>

\* mng_spinbox.setRange(0, 1e9); mng_min_spinbox and mng_max_spinbox:
\* setRange(0, 999999).
MngSpinBoxMaximum == 1000000000
MngRangeMaximum == 999999

\* The user commits v in the Min. Net Gradient spin box:
\* on_mng_spinbox_changed widens the slider range through the Min / Max spin
\* boxes (on_mng_min_changed, on_mng_max_changed), which keep their own range,
\* and sets the slider.  Only a slider whose value changes emits valueChanged
\* and has on_mng_slider_changed set the spin box to the slider's value.
EditMng(v) ==
    /\ Clamp(v, 0, MngSpinBoxMaximum) # mng_spinbox
    /\ LET c == Clamp(v, 0, MngSpinBoxMaximum)
           r == Clamp(c, 0, MngRangeMaximum)
       IN /\ mng_min_spinbox' = IF c < mng_minimum THEN r ELSE mng_min_spinbox
          /\ mng_minimum' = IF c < mng_minimum /\ r # mng_min_spinbox THEN r
                            ELSE mng_minimum
          /\ mng_max_spinbox' = IF c > mng_maximum THEN r ELSE mng_max_spinbox
          /\ mng_maximum' = IF c > mng_maximum /\ r # mng_max_spinbox THEN r
                            ELSE mng_maximum
          /\ mng_slider' = Clamp(c, mng_minimum', mng_maximum')
          /\ mng_spinbox' = IF mng_slider' # mng_slider THEN mng_slider' ELSE c
    /\ IF mng_slider' # mng_slider /\ preview_checkbox
       THEN OnParametersChanged([box |-> box_spinbox, mng |-> mng_slider'])
       ELSE UNCHANGED <<locs, ready_for_fit, preview_call, frameVars>>
    /\ UNCHANGED <<movie, movie_path, current_frame_number, identifications,
                   last_identification_info, viewVars, box_spinbox, preview_checkbox,
                   fitSetVars, workerVars, save_call, runVars,
                   camVars, raised, prompt>>

\* What on_mng_slider_changed leaves after the slider has taken the value
\* mng_slider': the spin box is set to it (its own handler then finds the
\* value within the slider's range), and on_parameters_changed runs under
\* Preview.  A slider that keeps its value emits nothing.
OnMngSliderChanged ==
    /\ mng_spinbox' = IF mng_slider' # mng_slider THEN mng_slider' ELSE mng_spinbox
    /\ IF mng_slider' # mng_slider /\ preview_checkbox
       THEN OnParametersChanged([box |-> box_spinbox, mng |-> mng_slider'])
       ELSE UNCHANGED <<locs, ready_for_fit, preview_call, frameVars>>

\* The user drags the slider to v, a value of its range.
MoveSlider(v) ==
    /\ v \in mng_minimum..mng_maximum /\ v # mng_slider
    /\ mng_slider' = v
    /\ OnMngSliderChanged
    /\ UNCHANGED <<movie, movie_path, current_frame_number, identifications,
                   last_identification_info, viewVars, box_spinbox, mng_minimum,
                   mng_maximum, mng_min_spinbox, mng_max_spinbox, preview_checkbox,
                   fitSetVars, workerVars, save_call, runVars, camVars, raised, prompt>>

\* The user commits v in the slider's Min spin box: on_mng_min_changed ->
\* QSlider.setMinimum, which is setRange(min, max(max, min)) and moves a value
\* that falls outside.
EditMngMin(v) ==
    /\ Clamp(v, 0, MngRangeMaximum) # mng_min_spinbox
    /\ mng_min_spinbox' = Clamp(v, 0, MngRangeMaximum)
    /\ mng_minimum' = mng_min_spinbox'
    /\ mng_maximum' = Max2(mng_maximum, mng_min_spinbox')
    /\ mng_slider' = Clamp(mng_slider, mng_minimum', mng_maximum')
    /\ OnMngSliderChanged
    /\ UNCHANGED <<movie, movie_path, current_frame_number, identifications,
                   last_identification_info, viewVars, box_spinbox, mng_max_spinbox,
                   preview_checkbox, fitSetVars, workerVars, save_call, runVars,
                   camVars, raised, prompt>>

\* The user commits v in the slider's Max spin box: on_mng_max_changed ->
\* QSlider.setMaximum, which is setRange(min(min, max), max).
EditMngMax(v) ==
    /\ Clamp(v, 0, MngRangeMaximum) # mng_max_spinbox
    /\ mng_max_spinbox' = Clamp(v, 0, MngRangeMaximum)
    /\ mng_maximum' = mng_max_spinbox'
    /\ mng_minimum' = Min2(mng_minimum, mng_max_spinbox')
    /\ mng_slider' = Clamp(mng_slider, mng_minimum', mng_maximum')
    /\ OnMngSliderChanged
    /\ UNCHANGED <<movie, movie_path, current_frame_number, identifications,
                   last_identification_info, viewVars, box_spinbox, mng_min_spinbox,
                   preview_checkbox, fitSetVars, workerVars, save_call, runVars,
                   camVars, raised, prompt>>

\* The Preview checkbox is toggled: on_preview_changed -> Window.draw_frame.
TogglePreview ==
    /\ preview_checkbox' = ~preview_checkbox
    /\ preview_call' = IF movie # 0 /\ ~ready_for_fit /\ preview_checkbox'
                       THEN [called |-> TRUE, movie |-> movie, mng |-> mng_slider,
                             box |-> box_spinbox, frame |-> current_frame_number,
                             roi |-> roi]
                       ELSE preview_call
    /\ DrawFrameOnly(movie, current_frame_number)
    /\ UNCHANGED <<winVars, viewVars, box_spinbox, mng_spinbox, mng_slider,
                   mng_minimum, mng_maximum, mng_min_spinbox, mng_max_spinbox,
                   fitSetVars, workerVars, save_call, runVars,
                   camVars, raised, prompt>>

\* ------------------------------------------------------- ContrastDialog
\* The user commits v in the Black (black = TRUE) or the White spin box:
\* on_contrast_changed unchecks Auto (on_auto_changed(0) does nothing) and
\* calls Window.draw_frame.
EditContrast(black, v) ==
    /\ Clamp(v, 0, ContrastMaximum) # (IF black THEN black_spinbox ELSE white_spinbox)
    /\ black_spinbox' = IF black THEN Clamp(v, 0, ContrastMaximum) ELSE black_spinbox
    /\ white_spinbox' = IF black THEN white_spinbox ELSE Clamp(v, 0, ContrastMaximum)
    /\ auto_checkbox' = FALSE
    /\ DrawFramePixels(movie, current_frame_number, FALSE, black_spinbox', white_spinbox')
    /\ preview_call' = DrawFrame(movie, ready_for_fit, current_frame_number,
                                 Parameters, roi, preview_call)
    /\ UNCHANGED <<winVars, viewVars, idVars, fitSetVars, workerVars, save_call,
                   runVars, camVars, raised, prompt>>

\* The user toggles the Auto checkbox: on_auto_changed.  Checking it sets
\* Black and White to the current frame's minimum and maximum and draws;
\* before a movie has been opened the Window has no current_frame_number and
\* reading it raises AttributeError before anything else is changed.
ToggleAuto ==
    /\ auto_checkbox' = ~auto_checkbox
    /\ raised' = IF auto_checkbox' /\ movie = 0 THEN "AttributeError" ELSE raised
    /\ IF auto_checkbox' /\ movie # 0
       THEN LET fr == movie_data[movie][current_frame_number]
            IN /\ black_spinbox' = Clamp(FrameMin(fr), 0, ContrastMaximum)
               /\ white_spinbox' = Clamp(FrameMax(fr), 0, ContrastMaximum)
               /\ DrawFramePixels(movie, current_frame_number, TRUE,
                                  black_spinbox', white_spinbox')
               /\ preview_call' = DrawFrame(movie, ready_for_fit, current_frame_number,
                                            Parameters, roi, preview_call)
       ELSE UNCHANGED <<black_spinbox, white_spinbox, movie_data, display,
                        preview_call>>
    /\ UNCHANGED <<winVars, viewVars, idVars, fitSetVars, workerVars, save_call,
                   runVars, camVars, prompt>>

\* The user edits the Photon Conversion and Fit Settings widgets that
\* Window.fit reads.  None of them has a handler, so a burst of edits is one
\* step that leaves the widgets at the values of c.
EditFitWidgets(c) ==
    /\ c # [gain |-> gain, baseline |-> baseline, sensitivity |-> sensitivity,
            qe |-> qe, eps |-> convergence_spinbox, max_it |-> max_iterations_spinbox,
            symmetric |-> symmetric_checkbox]
    /\ gain' = c.gain /\ baseline' = c.baseline /\ sensitivity' = c.sensitivity
    /\ qe' = c.qe /\ convergence_spinbox' = c.eps
    /\ max_iterations_spinbox' = c.max_it /\ symmetric_checkbox' = c.symmetric
    /\ UNCHANGED <<winVars, viewVars, idVars, workerVars, callVars, runVars,
                   frameVars, camVars, raised, prompt>>

\* The Convergence Criterion spin box counts in steps of its 5 decimals
\* (0.00001): setRange(0, 1) is 0..ConvergenceMaximum, the default 0.0001 is 10.
ConvergenceMaximum == 100000
\* max_iterations_spinbox.setRange(0, 999999).
MaxIterationsMaximum == 999999

\* The user sets the Convergence Criterion spin box to v; the spin box keeps
\* the value inside its range.  The widget has no handler.
EditConvergence(v) ==
    /\ Clamp(v, 0, ConvergenceMaximum) # convergence_spinbox
    /\ convergence_spinbox' = Clamp(v, 0, ConvergenceMaximum)
    /\ UNCHANGED <<winVars, viewVars, idVars, gain, baseline, sensitivity, qe,
                   max_iterations_spinbox, symmetric_checkbox, workerVars,
                   callVars, runVars,
                   frameVars, camVars, raised, prompt>>

\* The user sets the Max. Iterations spin box to v.
EditMaxIterations(v) ==
    /\ Clamp(v, 0, MaxIterationsMaximum) # max_iterations_spinbox
    /\ max_iterations_spinbox' = Clamp(v, 0, MaxIterationsMaximum)
    /\ UNCHANGED <<winVars, viewVars, idVars, gain, baseline, sensitivity, qe,
                   convergence_spinbox, symmetric_checkbox, workerVars,
                   callVars, runVars,
                   frameVars, camVars, raised, prompt>>

\* --------------------------------------------------------------- View
\* int() of a quotient: Python truncates towards zero.
TruncDiv(a, b) == IF a >= 0 THEN a \div b ELSE -((-a) \div b)
Abs(a) == IF a >= 0 THEN a ELSE -a

\* QGraphicsView.mapToScene then int(): a view point <<x, y>> in scene (frame)
\* coordinates, under the scale fit_in_view left and no scrolling.
MapToScene(p) == <<TruncDiv(p[1], view_scale), TruncDiv(p[2], view_scale)>>

\* The roi mouseReleaseEvent computes: [[y, x], [y, x]] of the two corners.
RoiOf(origin, end) ==
    IF Abs(end[1] - origin[1]) < MinRubberBand \/ Abs(end[2] - origin[2]) < MinRubberBand
    THEN NoRoi
    ELSE << <<MapToScene(origin)[2], MapToScene(origin)[1]>>,
            <<MapToScene(end)[2], MapToScene(end)[1]>> >>

\* View.mousePressEvent, left button, at view point p.
MousePress(p) ==
    /\ roi_origin' = p
    /\ UNCHANGED <<winVars, roi, view_scale, idVars, fitSetVars, workerVars,
                   callVars, runVars,
                   frameVars, camVars, raised, prompt>>

\* View.mouseReleaseEvent, left button, at view point p (the mouse is grabbed
\* while the button is down, so p may lie outside the viewport).
MouseRelease(p) ==
    /\ roi_origin # NoPoint
    /\ roi' = RoiOf(roi_origin, p)
    /\ preview_call' = DrawFrame(movie, ready_for_fit, current_frame_number,
                                 Parameters, roi', preview_call)
    /\ DrawFrameOnly(movie, current_frame_number)
    /\ UNCHANGED <<winVars, roi_origin, view_scale, idVars, fitSetVars, workerVars,
                   save_call, runVars,
                   camVars, raised, prompt>>

\* ------------------------------------------- a worker thread's run()
\* IdentificationWorker.run and FitWorker.run are the same loop over the
\* counter current[0] that identify_async / fit_async return; N is len(movie),
\* respectively len(identifications).  The pool behind the counter is
\* picasso.localize.  run_pending counts the items the pool has not taken yet.

\* run() up to the return of identify_async / fit_async: the pool is started.
RunStart ==
    /\ run_pc = "init"
    /\ run_pc' = "test"
    /\ UNCHANGED <<run_N, run_pending, run_current, run_progress, run_finished,
                   run_raised, run_late, run_result>>

\* A pool worker completes one item and increments the counter.
PoolItemDone ==
    /\ run_pc # "init" /\ run_pending > 0
    /\ run_pending' = run_pending - 1
    /\ run_current' = run_current + 1
    /\ UNCHANGED <<run_pc, run_N, run_progress, run_finished, run_raised, run_late, run_result>>

\* A pool worker raises on one item.  The error is kept in its future; whether
\* the failed item still counts as progress is left open, so both happen.
PoolItemRaise(counted) ==
    /\ run_pc # "init" /\ run_pending > 0
    /\ run_pending' = run_pending - 1
    /\ run_current' = IF counted THEN run_current + 1 ELSE run_current
    /\ run_raised' = TRUE
    /\ UNCHANGED <<run_pc, run_N, run_progress, run_finished, run_late, run_result>>

\* A loop that does not wait for the counter.
RunTestNoWait ==
    /\ run_pc = "test"
    /\ run_pc' = "final"
    /\ UNCHANGED <<run_N, run_pending, run_current, run_progress, run_finished,
                   run_raised, run_late, run_result>>

\* The loop test `while current[0] < N`.
RunTest ==
    /\ run_pc = "test"
    /\ run_pc' = IF run_current < run_N THEN "emit" ELSE "final"
    /\ UNCHANGED <<run_N, run_pending, run_current, run_progress, run_finished,
                   run_raised, run_late, run_result>>

\* progressMade.emit(current[0], ...): the counter is read again.
EmitProgress ==
    /\ run_progress' = run_current
    /\ run_late' = (run_late \/ run_finished > 0)

\* The loop body: emit, sleep, back to the test.
RunEmit ==
    /\ run_pc = "emit"
    /\ EmitProgress
    /\ run_pc' = "test"
    /\ UNCHANGED <<run_N, run_pending, run_current, run_finished, run_raised, run_result>>

\* A run() without the emit after the loop.
RunEmitFinalSkipped ==
    /\ run_pc = "final"
    /\ run_pc' = "collect"
    /\ UNCHANGED <<run_N, run_pending, run_current, run_progress, run_finished,
                   run_raised, run_late, run_result>>

\* The emit after the loop.
RunEmitFinal ==
    /\ run_pc = "final"
    /\ EmitProgress
    /\ run_pc' = "collect"
    /\ UNCHANGED <<run_N, run_pending, run_current, run_finished, run_raised, run_result>>

\* What identifications_from_futures / locs_from_fits collate from the
\* futures, as the number of items whose results they hold: those of the
\* items the pool has completed.
CollectedResult == run_current

\* identifications_from_futures / locs_from_fits, then finished.emit.  A future
\* that holds an error raises it here, and run() ends without finished.
RunCollect ==
    /\ run_pc = "collect"
    /\ IF run_raised
       THEN run_pc' = "failed" /\ UNCHANGED <<run_finished, run_result>>
       ELSE /\ run_pc' = "done"
            /\ run_finished' = run_finished + 1
            /\ run_result' = CollectedResult
    /\ UNCHANGED <<run_N, run_pending, run_current, run_progress, run_raised, run_late>>

\* ------------------------------------------------------- specifications
BoxInputs == {0, 6}
MngInputs == {DefaultMinNetGradient, 20000}
MousePoints == {<<96, 96>>, <<480, 480>>, <<900, 480>>}

Workers ==
    \/ \E w \in 1..Len(idw) : IdWorkerBegin(w)
    \/ \E w \in 1..Len(idw), n \in 0..MaxSpots : IdWorkerFinish(w, n)
    \/ OnIdentifyFinished
    \/ \E f \in 1..Len(fitw) : FitWorkerBegin(f)
    \/ \E f \in 1..Len(fitw) : FitWorkerFinish(f)
    \/ OnFitFinished

Next ==
    \/ \E m \in Movies : Open(m)
    \/ \E fa \in BOOLEAN : Identify(fa)
    \/ Fit
    \/ Workers
    \/ \E v \in BoxInputs : EditBox(v)
    \/ TogglePreview

Spec == Init /\ [][Next]_vars

\* Every GUI event that can fall into a worker's run, for the captured values.
FitWidgetInputs ==
    {[gain |-> 1, baseline |-> 1000, sensitivity |-> 100, qe |-> 90, eps |-> 10,
      max_it |-> 100, symmetric |-> TRUE],
     [gain |-> 2, baseline |-> 2000, sensitivity |-> 50, qe |-> 80, eps |-> 100,
      max_it |-> 50, symmetric |-> FALSE]}

NextCapture ==
    \/ Open(1)
    \/ Identify(FALSE)
    \/ Fit
    \/ Workers
    \/ \E v \in BoxInputs : EditBox(v)
    \/ MousePress(<<96, 96>>)
    \/ \E q \in {<<96, 96>>, <<900, 480>>} : MouseRelease(q)
    \/ \E c \in FitWidgetInputs : EditFitWidgets(c)

SpecCapture == Init /\ [][NextCapture]_vars

\* The box-size spin box: typed values and arrow steps.
NextParams ==
    \/ Open(1)
    \/ \E v \in 0..MaxBoxTyped : EditBox(v)
    \/ \E d \in {-2, 2} : EditBox(box_spinbox + d) /\ box_spinbox + d <= MaxBoxTyped + 1
    \/ \E v \in MngInputs : EditMng(v)
    \/ TogglePreview
    \/ Identify(FALSE)
    \/ \E w \in 1..Len(idw) : IdWorkerBegin(w)

SpecParams == Init /\ [][NextParams]_vars

\* The rubber band.
NextView ==
    \/ Open(1)
    \/ \E q \in MousePoints : MousePress(q)
    \/ \E q \in MousePoints : MouseRelease(q)
    \/ TogglePreview
    \/ Identify(FALSE)
    \/ \E w \in 1..Len(idw) : IdWorkerBegin(w)

SpecView == Init /\ [][NextView]_vars

\* The preview: everything draw_frame reads, and one identification that
\* finishes while the parameters are tuned.
NextPreview ==
    \/ Open(1)
    \/ \E v \in 1..MaxFrames : ToFrame(v)
    \/ TogglePreview
    \/ \E v \in BoxInputs : EditBox(v)
    \/ \E v \in MngInputs : EditMng(v)
    \/ MousePress(<<96, 96>>)
    \/ MouseRelease(<<480, 480>>)
    \/ Identify(FALSE) /\ idw = << >>
    \/ \E w \in 1..Len(idw) : IdWorkerBegin(w)
    \/ \E w \in 1..Len(idw) : \E n \in 0..MaxSpots : IdWorkerFinish(w, n)
    \/ OnIdentifyFinished

SpecPreview == Init /\ [][NextPreview]_vars

\* The Fit Settings spin boxes: values at, inside and beyond the ends of
\* their ranges.
ConvergenceInputs == {-1, 0, 10, ConvergenceMaximum, ConvergenceMaximum + 1}
MaxIterationsInputs == {-1, 0, 100, MaxIterationsMaximum + 1}

NextFitSettings ==
    \/ Open(1)
    \/ Identify(FALSE)
    \/ \E w \in 1..Len(idw) : IdWorkerBegin(w)
    \/ \E w \in 1..Len(idw) : IdWorkerFinish(w, 1)
    \/ OnIdentifyFinished
    \/ Fit
    \/ \E f \in 1..Len(fitw) : FitWorkerBegin(f)
    \/ \E v \in ConvergenceInputs : EditConvergence(v)
    \/ \E v \in MaxIterationsInputs : EditMaxIterations(v)

SpecFitSettings == Init /\ [][NextFitSettings]_vars

\* Frames shown under automatic and manual contrast while the movie is
\* previewed, identified and fitted.
ContrastInputs == {0, 50, 120, ContrastMaximum + 1}

NextPixels ==
    \/ \E m \in Movies : Open(m)
    \/ \E v \in 1..MaxFrames : ToFrame(v)
    \/ \E black \in BOOLEAN, v \in ContrastInputs : EditContrast(black, v)
    \/ ToggleAuto
    \/ TogglePreview
    \/ Identify(FALSE) /\ idw = << >>
    \/ \E w \in 1..Len(idw) : IdWorkerBegin(w)
    \/ \E w \in 1..Len(idw) : IdWorkerFinish(w, 1)
    \/ OnIdentifyFinished
    \/ Fit
    \/ \E f \in 1..Len(fitw) : FitWorkerBegin(f)
    \/ \E f \in 1..Len(fitw) : FitWorkerFinish(f)
    \/ OnFitFinished

SpecPixels == Init /\ [][NextPixels]_vars

\* The ParametersDialog under each CONFIG: its construction, the camera,
\* category and emission combo boxes, and movies opened with metadata.
InitCamera ==
    /\ InitWindow /\ InitRunIdle
    /\ config \in {NoCameras} \cup Configs
    /\ dialog = "new"

CamSettings ==
    {NoSettings,
     [i \in 1..MaxDepth |-> 2],
     [i \in 1..MaxDepth |-> IF i = 1 THEN 9 ELSE 0],
     [i \in 1..MaxDepth |-> IF i = 1 THEN 2 ELSE 1]}

CamInfos ==
    [mm : {TRUE}, camera : {CategoryCamera, PlainCamera, UnknownCamera},
     settings : CamSettings, channel : 1..4, gain : {5}]

NextCamera ==
    \/ Construct
    \/ \E c \in Cameras(config) : OnCameraChanged(c)
    \/ \E i \in 1..MaxDepth, n \in 1..3 : SelectCategory(i, n)
    \/ \E n \in 1..2 : SelectEmission(n)
    \/ \E info \in CamInfos : OpenMovie(1, info)

SpecCamera == InitCamera /\ [][NextCamera]_vars

\* Frame navigation over movies of different lengths, under automatic and
\* manual contrast.
NextFrames ==
    \/ \E m \in Movies : Open(m)
    \/ PreviousFrame
    \/ NextFrame
    \/ FirstFrame
    \/ LastFrame
    \/ \E v \in 0..(MaxFrames + 1) : ToFrame(v)
    \/ \E black \in BOOLEAN, v \in ContrastInputs : EditContrast(black, v)
    \/ ToggleAuto
    \/ TogglePreview

SpecFrames == Init /\ [][NextFrames]_vars

\* Every menu action and dialog handler, from a Window that has not opened
\* a movie yet.
NextStart ==
    \/ Open(1)
    \/ PreviousFrame
    \/ NextFrame
    \/ FirstFrame
    \/ LastFrame
    \/ ToFrame(1)
    \/ \E fit_afterwards \in BOOLEAN : Identify(fit_afterwards) /\ idw = << >>
    \/ \E w \in 1..Len(idw) : IdWorkerBegin(w)
    \/ \E w \in 1..Len(idw) : IdWorkerFinish(w, 1)
    \/ OnIdentifyFinished
    \/ Fit
    \/ \E f \in 1..Len(fitw) : FitWorkerBegin(f)
    \/ \E f \in 1..Len(fitw) : FitWorkerFinish(f)
    \/ OnFitFinished
    \/ SaveLocsDialog
    \/ EditBox(DefaultBoxSize + 2)
    \/ EditMng(DefaultMinNetGradient + 1)
    \/ TogglePreview
    \/ EditContrast(TRUE, 50)
    \/ ToggleAuto

SpecStart == Init /\ [][NextStart]_vars

\* Movies opened, with and without a result from load_movie, over a Window
\* that shows a later frame and holds identifications and localizations.
NextOpen ==
    \/ \E result \in {NoResult} \cup Movies : OpenPath(result)
    \/ \E v \in 1..MaxFrames : ToFrame(v)
    \/ TogglePreview
    \/ Identify(FALSE) /\ idw = << >>
    \/ \E w \in 1..Len(idw) : IdWorkerBegin(w)
    \/ \E w \in 1..Len(idw) : IdWorkerFinish(w, 1)
    \/ OnIdentifyFinished
    \/ Fit
    \/ \E f \in 1..Len(fitw) : FitWorkerBegin(f)
    \/ \E f \in 1..Len(fitw) : FitWorkerFinish(f)
    \/ OnFitFinished

SpecOpen == Init /\ [][NextOpen]_vars

\* The Min. Net Gradient spin box, its slider and the slider's Min and Max
\* spin boxes, edited in any order.
NextMng ==
    \/ Open(1)
    \/ TogglePreview
    \/ \E v \in {0, DefaultMinNetGradient, 20000, MngRangeMaximum,
                 MngRangeMaximum + 1} : EditMng(v)
    \/ \E v \in {mng_minimum, mng_maximum, DefaultMinNetGradient} : MoveSlider(v)
    \/ \E v \in {0, 100, 6000, 20000, MngRangeMaximum + 1} : EditMngMin(v)
    \/ \E v \in {0, 100, 6000, 20000, MngRangeMaximum + 1} : EditMngMax(v)

SpecMng == Init /\ [][NextMng]_vars

\* The movie-info prompt under every choice of the user.
NextPrompt ==
    \E entered \in [byte_order : 1..Len(ByteOrderItems),
                    dtype : {"float16", "uint16", "int32"},
                    frames : {1, MaxFrames}, height : {1, FrameSize},
                    width : {1, FrameSize}, save : BOOLEAN, accepted : BOOLEAN] :
        GetMovieSpecs(entered)

SpecPrompt == Init /\ [][NextPrompt]_vars

\* One run of a worker thread over N items.
InitRun ==
    /\ InitWindow /\ InitBuilt
    /\ run_pc = "init" /\ run_N \in 1..MaxItems /\ run_pending = run_N
    /\ run_current = 0 /\ run_progress = -1 /\ run_finished = 0
    /\ run_raised = FALSE /\ run_late = FALSE /\ run_result = -1

RunThread == RunStart \/ RunTest \/ RunEmit \/ RunEmitFinal \/ RunCollect

NextRun ==
    /\ \/ RunThread
       \/ PoolItemDone
       \/ \E counted \in BOOLEAN : PoolItemRaise(counted)
    /\ UNCHANGED <<winVars, viewVars, idVars, fitSetVars, workerVars, callVars,
                   frameVars, camVars, raised, prompt>>

SpecRun == InitRun /\ [][NextRun]_vars

\* The thread is scheduled and the pool keeps taking items.
SpecRunFair ==
    /\ SpecRun
    /\ WF_vars(RunThread /\ UNCHANGED <<winVars, viewVars, idVars, fitSetVars,
                                        workerVars, callVars, frameVars, camVars, raised, prompt>>)
    /\ WF_vars(PoolItemDone /\ UNCHANGED <<winVars, viewVars, idVars, fitSetVars,
                                           workerVars, callVars, frameVars, camVars, raised, prompt>>)

\* ------------------------------------------------------------- properties
\* The step in which the GUI thread handles the finished signal of
\* identification worker w.
IdentifyHandled(w) ==
    /\ w \in 1..Len(idw)
    /\ idw[w].st = "emitted"
    /\ idw'[w].st = "handled"

Odd(v) == v % 2 = 1

\* r is None or two corners inside a FrameSize x FrameSize frame.
InFrame(r) ==
    \/ r = NoRoi
    \/ \A i \in 1..2 : r[i][1] \in 0..FrameSize /\ r[i][2] \in 0..FrameSize

\* C1: whenever on_identify_finished has run for an identification run, the
\* Window holds no earlier result: identifications is that run's candidate set
\* (None for an empty one) and locs is None, whatever the run returned.
C1_FinishedRunInvalidatesEarlier ==
    [][\A w \in 1..Len(idw) :
          IdentifyHandled(w) =>
              /\ identifications'.run \in {0, w}
              /\ locs' = NoLocs]_vars

\* C2: when a second identification is launched while the first worker is
\* still running and both return candidates, then once both finished signals
\* are handled the Window's identifications are not those of the first.
C2_LaterInvocationWins ==
    \A w \in 1..Len(idw) : \A v \in 1..Len(idw) :
        (/\ w < v
         /\ w \in id_log[v].overlap
         /\ idw[w].st = "handled" /\ idw[w].stored
         /\ idw[v].st = "handled" /\ idw[v].stored)
        => identifications.run # w

\* C3: in one run over N items every value emitted through progressMade lies
\* in [0, N] (-1: nothing emitted yet), the emitted values never decrease, and
\* the last value emitted before finished is N.
C3_ProgressBoundedMonotoneFinal ==
    /\ [](run_progress \in -1..run_N)
    /\ [][run_progress' >= run_progress]_vars
    /\ [](run_pc \in {"collect", "done", "failed"} => run_progress = run_N)

\* C3 witness: a run over the largest number of items has emitted finished,
\* the last value emitted being N.
C3_Witness ==
    /\ run_pc = "done" /\ run_finished = 1
    /\ run_N = MaxItems /\ run_progress = run_N

\* C4: each run emits finished exactly once, only after the counter was seen
\* at N or above, and emits no progressMade after it.
C4_FinishedExactlyOnce ==
    /\ [](run_finished <= 1)
    /\ [](run_finished = 1 => run_current >= run_N)
    /\ [](~run_late)
    /\ <>(run_finished = 1)

\* C5: every launched run eventually ends, with finished emitted or with a
\* failure surfaced, also when a pool worker raises on an item.
C5_RunEventuallyEnds == <>(run_pc \in {"done", "failed"})

\* C6: what a running IdentificationWorker passes to identify_async and
\* reports in finished, and what a running FitWorker passes to fit_async and
\* locs_from_fits, are the Window's values of the moment the worker was
\* created, whatever GUI events happened since.
C6_WorkersUseCapturedValues ==
    /\ \A w \in 1..Len(idw) :
          /\ idw[w].st \in {"running", "emitted"} =>
                idw[w].args = [called |-> TRUE, movie |-> id_log[w].at.movie,
                               mng |-> id_log[w].at.mng, box |-> id_log[w].at.box,
                               roi |-> id_log[w].at.roi]
          /\ idw[w].st = "emitted" =>
                /\ idw[w].signal.parameters =
                       [box |-> id_log[w].at.box, mng |-> id_log[w].at.mng]
                /\ idw[w].signal.roi = id_log[w].at.roi
    /\ \A f \in 1..Len(fitw) :
          /\ fitw[f].st \in {"running", "emitted"} =>
                fitw[f].args = [called |-> TRUE, movie |-> fit_log[f].movie,
                                camera_info |-> fit_log[f].camera_info,
                                identifications |-> fit_log[f].identifications,
                                box |-> fit_log[f].box, eps |-> fit_log[f].eps,
                                max_it |-> fit_log[f].max_it,
                                method |-> fit_log[f].method]
          /\ fitw[f].st = "emitted" =>
                /\ fitw[f].locs.ids = fit_log[f].identifications
                /\ fitw[f].locs.box = fit_log[f].box

\* C6 witness: an identification has emitted finished and a fit is running
\* while box size, ROI, convergence criterion and method have all been
\* changed since the workers were created.
C6_Witness ==
    /\ \E w \in 1..Len(idw) :
          /\ idw[w].st = "emitted"
          /\ idw[w].signal.parameters.box # box_spinbox
          /\ idw[w].signal.roi # roi
    /\ \E f \in 1..Len(fitw) :
          /\ fitw[f].st = "running"
          /\ fitw[f].args.box # box_spinbox
          /\ fitw[f].args.eps # convergence_spinbox
          /\ fitw[f].args.method # Method
          /\ fitw[f].args.identifications # identifications

\* C7: Window.fit from the menu starts a FitWorker only when the
\* identification that finished last found at least one spot.
C7_FitNoOpWithoutCandidates ==
    [][(/\ Len(fitw') > Len(fitw)
        /\ fitw'[Len(fitw')].by = 0)
       => last_finished.n > 0]_vars

\* C8: a FitWorker is started on behalf of an identification run only in the
\* step that handles that run's finished signal; that step starts exactly one
\* FitWorker, with exactly the returned candidates, when the run was launched
\* with fit_afterwards and returned candidates, and none otherwise.
C8_LocalizeFitsReturnedCandidates ==
    /\ [][\A w \in 1..Len(idw) :
             IdentifyHandled(w) =>
                 IF idw[w].signal.fit_afterwards /\ idw[w].signal.identifications.n > 0
                 THEN /\ Len(fitw') = Len(fitw) + 1
                      /\ fitw'[Len(fitw')].by = w
                      /\ fitw'[Len(fitw')].identifications =
                             idw[w].signal.identifications
                 ELSE fitw' = fitw]_vars
    /\ [][(/\ Len(fitw') > Len(fitw)
           /\ fitw'[Len(fitw')].by # 0)
          => IdentifyHandled(fitw'[Len(fitw')].by)]_vars

\* C8 witness: a FitWorker started by the handler of a localize run holds the
\* candidates of that run.
C8_Witness ==
    \E f \in 1..Len(fitw) :
        /\ fitw[f].by # 0
        /\ fitw[f].st = "started"
        /\ fitw[f].identifications.run = fitw[f].by
        /\ fitw[f].identifications.n > 0

\* C9: every Box Size passed to identify_async, to the preview's
\* identify_by_frame_number or to a FitWorker is odd and at least 3.
C9_BoxOddAtLeast3 ==
    /\ \A w \in 1..Len(idw) :
          idw[w].args.called => Odd(idw[w].args.box) /\ idw[w].args.box >= 3
    /\ preview_call.called => Odd(preview_call.box) /\ preview_call.box >= 3
    /\ \A f \in 1..Len(fitw) :
          fitw[f].st = "started" => Odd(fitw[f].box) /\ fitw[f].box >= 3

\* C10: every ROI handed to identify_async or to the preview's
\* identify_by_frame_number is None or lies within the frame.
C10_RoiWithinFrame ==
    /\ \A w \in 1..Len(idw) : idw[w].args.called => InFrame(idw[w].args.roi)
    /\ preview_call.called => InFrame(preview_call.roi)

\* C11: every FitWorker is given a convergence threshold strictly between 0
\* and 1 and a max_iterations of at least 0.
C11_EpsAndMaxIterationsInRange ==
    \A f \in 1..Len(fitw) :
        fitw[f].st # "handled" =>
            /\ 0 < fitw[f].eps /\ fitw[f].eps < ConvergenceMaximum
            /\ fitw[f].max_it >= 0

\* C18: whenever a FitWorker is started, the identifications it is given were
\* computed from the movie it is given, also when a movie was opened while the
\* identification was running.
C18_FitIdentificationsOfFitMovie ==
    [][Len(fitw') > Len(fitw)
       => fitw'[Len(fitw')].identifications.movie = fitw'[Len(fitw')].movie]_vars

\* C19: whenever a FitWorker is started, the box size it is given is the Box
\* Size stored in last_identification_info, whatever box-size edits were made.
C19_FitBoxIsIdentificationBox ==
    [][Len(fitw') > Len(fitw)
       => fitw'[Len(fitw')].box = last_identification_info'.box]_vars

\* C20: in every reachable state, locs other than None implies ready_for_fit
\* and that locs was assembled from the stored identifications.
C20_LocsMatchIdentifications ==
    locs # NoLocs => ready_for_fit /\ locs.ids = identifications

\* draw_frame's condition for the preview, and the arguments it passes.
PreviewCondition == movie # 0 /\ ~ready_for_fit /\ preview_checkbox
PreviewArgs ==
    [called |-> TRUE, movie |-> movie, mng |-> mng_slider, box |-> box_spinbox,
     frame |-> current_frame_number, roi |-> roi]

\* C16: the preview identification is run exactly when a movie is loaded,
\* ready_for_fit is False and Preview is checked, with the current Min. Net
\* Gradient, Box Size, frame number and ROI; and a step that only redraws
\* (preview toggle, ROI drag, move to a later frame) leaves identifications,
\* locs, ready_for_fit and last_identification_info as they were.
C16_PreviewWhenTuningNoSideEffect ==
    /\ [](PreviewCondition => preview_call = PreviewArgs)
    /\ [][preview_call' # preview_call
          => PreviewCondition' /\ preview_call' = PreviewArgs']_vars
    /\ [][(\/ preview_checkbox' # preview_checkbox
           \/ roi' # roi
           \/ current_frame_number' \notin {0, current_frame_number})
          => UNCHANGED <<identifications, locs, ready_for_fit,
                         last_identification_info>>]_vars

\* C16 witness: the preview has run on a later frame with an edited box size
\* and a ROI, after an identification had finished and been invalidated.
C16_Witness ==
    /\ PreviewCondition
    /\ preview_call = PreviewArgs
    /\ current_frame_number > 0 /\ roi # NoRoi /\ box_spinbox # DefaultBoxSize
    /\ identifications # NoIdentifications

\* C17: the result a worker delivers in finished is the collated results of
\* all N items of its input, however the polls of the loop and the increments
\* of the counter interleave; two runs over the same input deliver the same.
C17_ResultIndependentOfPolling ==
    /\ run_pc = "done" => run_result = run_N
    /\ run_pc # "done" => run_result = -1

\* C17 witness: a run over several items has delivered its result.
C17_Witness ==
    /\ run_pc = "done"
    /\ run_N > 1
    /\ run_result = run_N

\* C15: no Window operation (set_frame, draw_frame under automatic or manual
\* contrast, the Auto toggle, the preview identification, identify, fit)
\* changes the pixel data of the movie: the contrast stretch of draw_frame
\* works on a converted copy of the frame.
C15_MoviePixelsNeverModified == movie_data = MovieData

\* C15 witness: a frame after the first has been drawn with manual contrast
\* into an image that differs from the stored samples, the preview
\* identification has run on it, and a fit of the movie has been handled.
C15_Witness ==
    /\ movie # 0 /\ current_frame_number > 0 /\ ~auto_checkbox
    /\ display # NoDisplay /\ display # movie_data[movie][current_frame_number]
    /\ preview_call.called /\ locs # NoLocs

\* What set_camera_parameters was last given does not resolve: the camera
\* name is not in CONFIG['Cameras']; a category setting is not a key of the
\* camera's Sensitivity table at its level; the channel's emission
\* wavelength has no Quantum Efficiency entry.
UnknownCameraName(info) == info.camera \notin Cameras(config)
UnknownCategorySetting(info) ==
    /\ info.camera \in Cameras(config)
    /\ \E i \in 1..Categories(config, info.camera) :
           /\ info.settings[i] # 0
           /\ info.settings[i] \notin {p[i] : p \in Leaves(Categories(config, info.camera))}
WavelengthWithoutQe(info) ==
    /\ info.camera \in Cameras(config)
    /\ HasChannelDevice(info.camera)
    /\ info.channel \in DOMAIN EmissionWavelengths
    /\ EmissionWavelengths[info.channel] \notin DOMAIN QuantumEfficiency(info.camera)

\* C12: when set_camera_parameters resolves calibration from movie metadata,
\* an unknown camera name, an unknown sensitivity-category setting, or an
\* emission wavelength without a quantum-efficiency entry raises an error
\* to the caller instead of being ignored.
C12_UnknownKeysRaise ==
    (cam_call.info.mm /\ config # NoCameras)
        => /\ UnknownCameraName(cam_call.info) => cam_call.raised # "none"
           /\ UnknownCategorySetting(cam_call.info) => cam_call.raised # "none"
           /\ WavelengthWithoutQe(cam_call.info) => cam_call.raised # "none"

\* Every combo box after the first of camera c's chain lists exactly the sorted
\* keys of the sub-table that the selections before it reach.
CombosFollowTable(c) ==
    \A i \in 2..Len(cam_combos[c]) :
        cam_combos[c][i].items =
            Sorted(SubKeys(Categories(config, c), Path(cam_combos[c], i - 1)))

\* C13: for a camera with a chain of k >= 1 Sensitivity Categories the
\* ParametersDialog is constructed without an error, and after a selection
\* change in a category combo box every downstream combo box lists the keys of
\* the sub-table the upstream selections reach and the Sensitivity spin box
\* holds the leaf value of the current selections.
C13_CategoryChainsOfEveryDepth ==
    /\ [](dialog # "IndexError")
    /\ [][(dialog = "built" /\ cam_combos' # cam_combos)
          => /\ \A c \in Cameras(config) : CombosFollowTable(c)'
             /\ sensitivity' = UpdateSensitivity(cam_combos'[camera'])]_vars

\* The Baseline, Sensitivity and Quantum Efficiency spin boxes hold the table
\* entries of the selected camera for its selected category settings and
\* emission wavelength.
Calibrated ==
    /\ baseline = Baseline(camera)
    /\ sensitivity = IF Categories(config, camera) = 0 THEN PlainSensitivity
                     ELSE UpdateSensitivity(cam_combos[camera])
    /\ qe = QuantumEfficiency(camera)[CurrentText(emission_combos[camera])]

\* C14: right after the selected camera has changed, and after the dialog
\* has been constructed, the Baseline, Sensitivity and Quantum Efficiency
\* that Window.fit would read are the table entries of the selected camera;
\* no value of the camera selected before, and no default, stays in effect.
C14_CalibrationFollowsCamera ==
    [][(camera' # camera \/ (dialog = "new" /\ dialog' = "built" /\ config # NoCameras))
       => Calibrated']_vars

\* C21: whenever on_fit_finished saves localizations next to the movie path,
\* that path is the path of the movie the FitWorker computed them from, in
\* every interleaving of Window.open with a running FitWorker.
C21_AutoSavePathOfFittedMovie ==
    [][(/\ gui_queue # << >>
        /\ Head(gui_queue).kind = "fit"
        /\ gui_queue' = Tail(gui_queue))
       => /\ save_call'.saved
          /\ save_call'.path = fitw[Head(gui_queue).w].movie]_vars

\* C22: in every reachable state ready_for_fit implies that identifications
\* is a non-empty candidate collection and last_identification_info is set;
\* a Window that has not opened a movie yet and a Window just after open()
\* have ready_for_fit = False, identifications = None and locs = None.
C22_ReadyForFitHasIdentifications ==
    /\ [](ready_for_fit => identifications.n > 0 /\ last_identification_info.set)
    /\ [](movie = 0 => /\ ~ready_for_fit
                       /\ identifications = NoIdentifications
                       /\ locs = NoLocs)
    /\ [][movie' # movie => /\ ~ready_for_fit'
                            /\ identifications' = NoIdentifications
                            /\ locs' = NoLocs]_vars

\* C22 witness: the second movie has been opened over a first one that had
\* been identified, and has itself been identified and is ready for fit.
C22_Witness ==
    /\ movie = 2 /\ ready_for_fit /\ identifications.n > 0
    /\ identifications.movie = 2 /\ Len(idw) > 1

\* C23: whenever a movie is loaded, after any sequence of previous_frame,
\* next_frame, first_frame, last_frame, to_frame and open,
\* 0 <= current_frame_number <= Frames - 1; previous_frame at frame 0 and
\* next_frame at the last frame do not call set_frame.
C23_FrameNumberInMovie ==
    movie # 0 =>
        /\ current_frame_number \in 0..(Frames(movie) - 1)
        /\ current_frame_number = 0 => ~ENABLED PreviousFrame
        /\ current_frame_number = Frames(movie) - 1
               => ~NextFrameGuard(current_frame_number, Frames(movie))
        /\ raised # "IndexError"

\* C23 witness: the last frame of a movie of more than one frame is shown
\* under manual contrast.
C23_Witness ==
    /\ movie # 0 /\ Frames(movie) > 1
    /\ current_frame_number = Frames(movie) - 1
    /\ ~auto_checkbox /\ display # NoDisplay

\* C24: before a movie has been opened every menu action and dialog handler
\* completes without raising and leaves movie, identifications, locs and
\* ready_for_fit as they were; and 'Save localizations' never calls
\* io.save_locs while locs or last_identification_info is None.
C24_NothingRaisesBeforeAMovie ==
    /\ [](movie = 0 => /\ raised = "none"
                       /\ identifications = NoIdentifications
                       /\ locs = NoLocs
                       /\ ~ready_for_fit)
    /\ [][(save_call' # save_call /\ gui_queue' = gui_queue)
          => locs # NoLocs /\ last_identification_info.set]_vars

\* C25: when Window.open is called and io.load_movie returns None, the Window
\* is unchanged: movie (with its info), movie_path, identifications, locs,
\* ready_for_fit and current_frame_number keep their values.
C25_OpenWithoutResultChangesNothing ==
    [][OpenPath(NoResult)
       => UNCHANGED <<movie, movie_path, identifications, locs, ready_for_fit,
                      current_frame_number>>]_vars

\* C25 witness: a Window that shows a later frame of a movie and holds
\* identifications and localizations, in which an open can be cancelled.
C25_Witness ==
    /\ movie # 0 /\ current_frame_number > 0
    /\ ready_for_fit /\ identifications # NoIdentifications /\ locs # NoLocs
    /\ ENABLED OpenPath(NoResult)

\* C26: after any sequence of edits to the Min. Net Gradient spin box, the
\* slider and the slider's Min and Max spin boxes, once the handlers have run,
\* the slider value (the one Window.parameters uses) equals the value the
\* spin box shows, and the slider range contains it and is non-negative.
C26_SliderShowsSpinBoxValue ==
    /\ mng_slider = mng_spinbox
    /\ mng_minimum <= mng_slider /\ mng_slider <= mng_maximum
    /\ mng_minimum >= 0

\* C27: getMovieSpecs returns info['Byte Order'] = '>' when the user selected
\* 'Big Endian' and '<' when the user selected 'Little Endian (loads
\* faster)'; the accepted flag it returns is True exactly when the dialog was
\* accepted.
C27_ByteOrderOfSelection ==
    prompt.called =>
        /\ ByteOrderItems[prompt.dialog.byte_order] = "Big Endian"
               => prompt.info.byte_order = ">"
        /\ ByteOrderItems[prompt.dialog.byte_order] = "Little Endian (loads faster)"
               => prompt.info.byte_order = "<"
        /\ prompt.ok <=> prompt.dialog.accepted
====
